---- MODULE Spec2Model ----
(***************************************************************************)
(* Human-in-the-loop workflow coordinator of the ambient email agent.      *)
(*                                                                         *)
(* ui/app.py keeps three module-level dictionaries (pending_approvals,     *)
(* approval_events, approval_decisions).  run_agent_workflow is the        *)
(* coordinator coroutine of one workflow; websocket_endpoint is the        *)
(* handler of inbound human_decision messages.  When run_server.main has   *)
(* shared its background loop with the UI module (background_loop set),    *)
(* the coordinator runs on the background loop's thread and the handler on *)
(* the UI server's thread, and the handler wakes the coordinator by        *)
(* scheduling _set_event on the background loop.  When background_loop is  *)
(* None both run on one event loop and the handler sets the event itself;  *)
(* code between two awaits is then atomic.                                 *)
(*                                                                         *)
(* Spec is the coordinator with the decision handler.  HubSpec and         *)
(* JoinSpec are the connection list of ui/app.py under broadcast_message   *)
(* and under the join snapshot of websocket_endpoint.  PollerSpec is       *)
(* GmailPoller (gmail_poller.py) as run_server.main runs it.               *)
(***************************************************************************)
EXTENDS Integers, Sequences, FiniteSets, TLC

\* ------------------------------------------------------------------ bounds
\* number of human_decision messages the decision channel delivers in a run
MaxDecisions == 2

\* number of observer connections (websockets) opened in a run
MaxConns == 2

\* number of broadcast_message calls in flight in a run
MaxBroadcasts == 2

\* number of messages that arrive in the inbox in a run
MaxIds == 6

\* number of fetch cycles of the poller in a run
MaxCycles == 3

\* number of Gmail API calls (list, get, modify) that fail in a run
MaxFaults == 2

\* gmail_poller.py line 210: max_errors = 5
max_errors == 5

\* ------------------------------------------------------------ value domains
Workflows == {"A", "B"}

\* an asyncio.Event created for a workflow: the first or the second one
Gens == {1, 2}

\* websocket connections and broadcast_message calls
Conns == 1..MaxConns
Broadcasters == 1..MaxBroadcasts

\* Gmail message ids, in the order the messages arrive
Ids == 1..MaxIds

Verdicts == {"approve", "deny", "edit", "respond", "ignore"}

\* human_decision messages: decision and message.get("edited_content", "")
DecisionInputs ==
    {[decision |-> v, edited_content |-> ""] : v \in Verdicts}
    \cup {[decision |-> "edit", edited_content |-> "New body"]}

\* what agent.invoke (stage 1) can return: the triage decision, the
\* suspension indicator and the body of the pending action it drafted
Stage1Results ==
    { [triage_decision |-> "notify_human", requires_approval |-> FALSE, body |-> ""],
      [triage_decision |-> "respond", requires_approval |-> TRUE, body |-> "Dear customer"],
      [triage_decision |-> "ignore", requires_approval |-> FALSE, body |-> ""] }

\* what react_agent_node (draft-only stage) returns: a pending action
DraftResult == [body |-> "Draft reply"]

NoResult == [triage_decision |-> "", requires_approval |-> FALSE, body |-> ""]

VARIABLES
    background_loop,     \* ui.app.background_loop is set (TRUE) or None (FALSE)
    loop_running,        \* the event loop the workflows run on is running
    pending_approvals,   \* dict workflow_id -> approval_data
    approval_events,     \* dict workflow_id -> the asyncio.Event (its generation)
    approval_decisions,  \* dict workflow_id -> {decision, edited_content}
    event_set,           \* the flag of each created asyncio.Event
    scheduled,           \* _set_event coroutines queued on the background loop
    pc,                  \* position of each run_agent_workflow coroutine
    result,              \* local: the pipeline state of each workflow
    decision,            \* local: decision read after the wait
    edited_content,      \* local: edited_content read after the wait
    calls,               \* per workflow, the stage / audit invocations made
    sent,                \* per workflow, the notifications broadcast
    waits,               \* per workflow, its suspensions and how each ended
    hpc,                 \* position of the human_decision handler
    hmsg,                \* the message the handler is processing
    received,            \* number of human_decision messages received
    heard,               \* first decision received for the suspension a workflow waits on
    websocket_connections,  \* list of the connected websockets
    endpoint,            \* per websocket: its websocket_endpoint coroutine and its peer
    broadcasts,          \* per broadcast_message call: its position and locals
    running,             \* GmailPoller.running
    processed_ids,       \* GmailPoller.processed_ids
    consecutive_errors,  \* local of start_polling
    ppc,                 \* position of start_polling
    messages,            \* fetch_unread_emails: the listed messages still to look at
    emails,              \* the fetched emails still to hand to the callback
    unread,              \* Gmail: ids of the inbox messages labelled UNREAD
    arrived,             \* Gmail: number of messages that have arrived
    item,                \* per id: callback invocations, their outcome, mark_as_read
    cycle,               \* the fetch cycle in progress: number, listing, failures
    faults,              \* Gmail: number of API calls that have failed
    owed,                \* consecutive_errors reached max_errors, no cooldown since
    cooldowns            \* number of extended cooldowns taken

vars == <<background_loop, loop_running, pending_approvals, approval_events, approval_decisions,
          event_set, scheduled, pc, result, decision, edited_content, calls,
          sent, waits, hpc, hmsg, received, heard,
          websocket_connections, endpoint, broadcasts,
          running, processed_ids, consecutive_errors, ppc, messages, emails,
          unread, arrived, faults, item, cycle, owed, cooldowns>>

registry == <<pending_approvals, approval_events, approval_decisions, event_set, scheduled>>
handler == <<hpc, hmsg, received, heard>>
inbound == <<hpc, hmsg, received>>
locals == <<result, decision, edited_content>>
hub == <<websocket_connections, endpoint, broadcasts>>
poller == <<running, processed_ids, consecutive_errors, ppc, messages, emails,
            unread, arrived, faults, item, cycle, owed, cooldowns>>

NoMsg == [workflow_id |-> ""]

\* dict[key] = value
Put(d, k, v) == [x \in DOMAIN d \cup {k} |-> IF x = k THEN v ELSE d[x]]

\* del dict[key]
Del(d, k) == [x \in DOMAIN d \ {k} |-> d[x]]

\* a websocket nobody has opened yet
NoEndpoint ==
    [pc |-> "new", alive |-> TRUE, at_join |-> {}, yielded |-> {}, dirty |-> FALSE,
     complete |-> TRUE]

\* a broadcast_message call that has not been made yet
NoBroadcast ==
    [pc |-> "idle", index |-> 0, disconnected |-> << >>, delivered |-> {}, start |-> {},
     missed |-> {}, stale |-> {}]

\* an id the poller has done nothing with yet
NoItem == [invoked |-> 0, outcome |-> "none", mark |-> "none"]

\* before the first fetch cycle
NoCycle == [n |-> 0, fetched |-> "none", listed |-> {}, failed |-> {}, stopped_at |-> "none"]

Init ==
    /\ running = FALSE
    /\ processed_ids = {}
    /\ consecutive_errors = 0
    /\ ppc = "idle"
    /\ messages = << >>
    /\ emails = << >>
    /\ unread = {}
    /\ arrived = 0
    /\ faults = 0
    /\ item = [i \in Ids |-> NoItem]
    /\ cycle = NoCycle
    /\ owed = FALSE
    /\ cooldowns = 0
    /\ websocket_connections = << >>
    /\ endpoint = [c \in Conns |-> NoEndpoint]
    /\ broadcasts = [b \in Broadcasters |-> NoBroadcast]
    /\ background_loop \in BOOLEAN
    /\ loop_running = TRUE
    /\ pending_approvals = << >>
    /\ approval_events = << >>
    /\ approval_decisions = << >>
    /\ event_set = [w \in Workflows |-> [g \in Gens |-> FALSE]]
    /\ scheduled = {}
    /\ pc = [w \in Workflows |-> "created"]
    /\ result = [w \in Workflows |-> NoResult]
    /\ decision = [w \in Workflows |-> ""]
    /\ edited_content = [w \in Workflows |-> ""]
    /\ calls = [w \in Workflows |-> << >>]
    /\ sent = [w \in Workflows |-> << >>]
    /\ waits = [w \in Workflows |-> << >>]
    /\ hpc = "idle"
    /\ hmsg = NoMsg
    /\ received = 0
    /\ heard = << >>

\* ------------------------------------------------------------- coordinator
\* await broadcast_message({"type": type, "workflow_id": w, "decision": d})
Broadcast(w, type, d) ==
    sent' = [sent EXCEPT ![w] = Append(@, [type |-> type, decision |-> d])]

\* an except clause that swallows the error without a notification
ExceptSilent(w) == UNCHANGED sent

\* lines 532-541: the outer except: broadcast workflow_error
ExceptBroadcast(w) == Broadcast(w, "workflow_error", "")

\* a call of a pipeline stage or of the audit collaborator
Invoke(w, stage, body) ==
    calls' = [calls EXCEPT ![w] =
                 Append(@, [stage |-> stage, body |-> body, raised |-> FALSE])]

\* a call of a pipeline stage or of the audit collaborator that raises
InvokeRaise(w, stage, body) ==
    calls' = [calls EXCEPT ![w] =
                 Append(@, [stage |-> stage, body |-> body, raised |-> TRUE])]

Goto(w, label) == pc' = [pc EXCEPT ![w] = label]

\* a pending action executed without asking for its approval
AfterTriageExecutes(r) == IF r.requires_approval THEN "exec" ELSE "auto_bc"

\* line 357: if result.get("requires_approval") ... else (auto-processed)
AfterTriage(r) == IF r.requires_approval THEN "d_reg" ELSE "auto_bc"

\* process_incoming_email / process_email: the workflow task is created
Submit(w) ==
    /\ pc[w] = "created"
    /\ Goto(w, "stage1")
    /\ IF background_loop
          THEN UNCHANGED sent
          ELSE Broadcast(w, "processing_started", "")
    /\ UNCHANGED <<hub, poller, loop_running, background_loop, registry, locals, calls, waits, handler>>

\* stage 1 run by a single worker: one invocation at a time
Stage1ReturnSerial(w, r) ==
    /\ pc[w] = "stage1"
    /\ \A o \in Workflows \ {w} : pc[o] # "stage1"
    /\ Invoke(w, "stage1", "")
    /\ result' = [result EXCEPT ![w] = r]
    /\ Goto(w, "triage_bc")
    /\ UNCHANGED <<hub, poller, loop_running, background_loop, registry, decision, edited_content, sent, waits, handler>>

\* lines 212-215: agent.invoke returns a result
Stage1Return(w, r) ==
    /\ pc[w] = "stage1"
    /\ Invoke(w, "stage1", "")
    /\ result' = [result EXCEPT ![w] = r]
    /\ Goto(w, "triage_bc")
    /\ UNCHANGED <<hub, poller, loop_running, background_loop, registry, decision, edited_content, sent, waits, handler>>

\* lines 212-215: agent.invoke raises; caught at line 532
Stage1Raise(w) ==
    /\ pc[w] = "stage1"
    /\ InvokeRaise(w, "stage1", "")
    /\ ExceptBroadcast(w)
    /\ Goto(w, "done")
    /\ UNCHANGED <<hub, poller, loop_running, background_loop, registry, locals, waits, handler>>

\* lines 226-234: broadcast triage_complete, then branch on the triage decision
TriageBroadcast(w) ==
    /\ pc[w] = "triage_bc"
    /\ Broadcast(w, "triage_complete", result[w].triage_decision)
    /\ Goto(w, IF result[w].triage_decision = "notify_human"
                  THEN "n_reg" ELSE AfterTriage(result[w]))
    /\ UNCHANGED <<hub, poller, loop_running, background_loop, registry, locals, calls, waits, handler>>

\* ---------------------------------------------------------------- suspension
\* approval_data of the two flavors (lines 238-247 and 371-380)
ApprovalData(w, notify) ==
    [notification_type |-> notify,
     body |-> IF notify THEN "email body" ELSE result[w].body]

\* approval_events[workflow_id] = asyncio.Event(): a fresh, unset event
NewEvent(w, notify) ==
    /\ approval_events' = Put(approval_events, w, Len(waits[w]) + 1)
    /\ waits' = [waits EXCEPT ![w] = Append(@,
                   [notification_type |-> notify, state |-> "open",
                    decision |-> "", edited_content |-> ""])]

\* registration that keeps an entry already stored under the id
RegisterPendingKeepsFirst(w) ==
    /\ pc[w] \in {"n_reg", "d_reg"}
    /\ pending_approvals' = IF w \in DOMAIN pending_approvals
                               THEN pending_approvals
                               ELSE Put(pending_approvals, w, ApprovalData(w, pc[w] = "n_reg"))
    /\ IF background_loop
          THEN /\ Goto(w, IF pc[w] = "n_reg" THEN "n_regev" ELSE "d_regev")
               /\ UNCHANGED <<approval_events, waits>>
          ELSE /\ NewEvent(w, pc[w] = "n_reg")
               /\ Goto(w, IF pc[w] = "n_reg" THEN "n_bc" ELSE "d_bc")
    /\ UNCHANGED <<hub, poller, loop_running, background_loop, approval_decisions, event_set, scheduled,
                   locals, calls, sent, handler>>

\* line 250 / line 383: pending_approvals[workflow_id] = approval_data.
\* On a single event loop line 251 / 384 follows without an await.
RegisterPending(w) ==
    /\ pc[w] \in {"n_reg", "d_reg"}
    /\ pending_approvals' = Put(pending_approvals, w, ApprovalData(w, pc[w] = "n_reg"))
    /\ IF background_loop
          THEN /\ Goto(w, IF pc[w] = "n_reg" THEN "n_regev" ELSE "d_regev")
               /\ UNCHANGED <<approval_events, waits>>
          ELSE /\ NewEvent(w, pc[w] = "n_reg")
               /\ Goto(w, IF pc[w] = "n_reg" THEN "n_bc" ELSE "d_bc")
    /\ UNCHANGED <<hub, poller, loop_running, background_loop, approval_decisions, event_set, scheduled,
                   locals, calls, sent, handler>>

\* line 251 / line 384, when the handler runs on another thread
RegisterEvent(w) ==
    /\ pc[w] \in {"n_regev", "d_regev"}
    /\ NewEvent(w, pc[w] = "n_regev")
    /\ Goto(w, IF pc[w] = "n_regev" THEN "n_bc" ELSE "d_bc")
    /\ UNCHANGED <<hub, poller, loop_running, background_loop, pending_approvals, approval_decisions, event_set,
                   scheduled, locals, calls, sent, handler>>

\* lines 253-256 / 386-389: broadcast approval_required, then start the wait
ApprovalBroadcast(w) ==
    /\ pc[w] \in {"n_bc", "d_bc"}
    /\ Broadcast(w, "approval_required", "")
    /\ Goto(w, IF pc[w] = "n_bc" THEN "n_wait" ELSE "d_wait")
    /\ UNCHANGED <<hub, poller, loop_running, background_loop, registry, locals, calls, waits, handler>>

\* approval_decisions.get(workflow_id, {}).get(key, default)
StoredDecision(w, default) ==
    IF w \in DOMAIN approval_decisions
       THEN approval_decisions[w]
       ELSE [decision |-> default, edited_content |-> ""]

\* lines 280-357: what the notify flavor does with the decision
AfterNotify(w, d) ==
    CASE d = "ignore" -> "n_ignore"
      [] d = "respond" -> "draft"
      [] OTHER -> AfterTriage(result[w])

\* lines 418-442: what the draft-approval flavor does with the decision
AfterDraftApproval(d) == IF d = "deny" THEN "deny" ELSE "exec"

\* lines 262-276 / 395-410: the event the coroutine waits on is set; it wakes
\* up and reads the stored decision
Resume(w) ==
    /\ pc[w] \in {"n_wait", "d_wait"}
    /\ event_set[w][approval_events[w]]
    /\ LET dd == StoredDecision(w, IF pc[w] = "n_wait" THEN "ignore" ELSE "deny")
           ec == IF pc[w] = "d_wait" THEN dd.edited_content ELSE edited_content[w]
       IN /\ decision' = [decision EXCEPT ![w] = dd.decision]
          /\ edited_content' = [edited_content EXCEPT ![w] = ec]
          /\ waits' = [waits EXCEPT ![w][Len(waits[w])] =
                         [@ EXCEPT !.state = "resumed", !.decision = dd.decision,
                                   !.edited_content = dd.edited_content]]
          /\ Goto(w, IF pc[w] = "n_wait" THEN AfterNotify(w, dd.decision)
                                        ELSE AfterDraftApproval(dd.decision))
    /\ heard' = Del(heard, w)
    /\ UNCHANGED <<hub, poller, loop_running, background_loop, registry, result, calls, sent, inbound>>

\* the timeout handler without its return: the coroutine falls through to the
\* code that follows the wait
TimeoutNoReturn(w) ==
    /\ pc[w] \in {"n_wait", "d_wait"}
    /\ ~event_set[w][approval_events[w]]
    /\ waits' = [waits EXCEPT ![w][Len(waits[w])].state = "timeout"]
    /\ Broadcast(w, "workflow_timeout", "")
    /\ Goto(w, IF pc[w] = "n_wait" THEN "n_ignore" ELSE "deny")
    /\ heard' = Del(heard, w)
    /\ UNCHANGED <<hub, poller, loop_running, background_loop, registry, locals, calls, inbound>>

\* a wait without a timeout: the coroutine stays suspended until its event is set
TimeoutNever(w) ==
    /\ pc[w] \in {"n_wait", "d_wait"}
    /\ FALSE
    /\ UNCHANGED vars

\* lines 266-272 / 399-405: asyncio.TimeoutError after 600 s without the event
\* being set; broadcast workflow_timeout and return
Timeout(w) ==
    /\ pc[w] \in {"n_wait", "d_wait"}
    /\ ~event_set[w][approval_events[w]]
    /\ waits' = [waits EXCEPT ![w][Len(waits[w])].state = "timeout"]
    /\ Broadcast(w, "workflow_timeout", "")
    /\ Goto(w, "done")
    /\ heard' = Del(heard, w)
    /\ UNCHANGED <<hub, poller, loop_running, background_loop, registry, locals, calls, inbound>>

\* ------------------------------------------------------ after the decision
\* lines 280-305: notify flavor, decision "ignore": broadcast workflow_complete,
\* then memory.save_email_interaction(..., human_approved=False), return
Ignore(w) ==
    /\ pc[w] = "n_ignore"
    /\ Broadcast(w, "workflow_complete", "ignored")
    /\ Invoke(w, "save_email_interaction", "")
    /\ Goto(w, "done")
    /\ UNCHANGED <<hub, poller, loop_running, background_loop, registry, locals, waits, handler>>

\* lines 280-303, save_email_interaction raises; caught at line 532
IgnoreAuditRaise(w) ==
    /\ pc[w] = "n_ignore"
    /\ sent' = [sent EXCEPT ![w] = @ \o <<[type |-> "workflow_complete", decision |-> "ignored"],
                                          [type |-> "workflow_error", decision |-> ""]>>]
    /\ InvokeRaise(w, "save_email_interaction", "")
    /\ Goto(w, "done")
    /\ UNCHANGED <<hub, poller, loop_running, background_loop, registry, locals, waits, handler>>

\* the draft is executed as soon as it is created, without a second approval
DraftReturnExecutes(w) ==
    /\ pc[w] = "draft"
    /\ Invoke(w, "react_agent", "")
    /\ result' = [result EXCEPT ![w] = [@ EXCEPT !.requires_approval = TRUE,
                                                 !.body = DraftResult.body]]
    /\ Goto(w, "exec")
    /\ UNCHANGED <<hub, poller, loop_running, background_loop, registry, decision, edited_content, sent, waits, handler>>

\* lines 329-342: react_agent_node returns the draft; approval is forced
DraftReturn(w) ==
    /\ pc[w] = "draft"
    /\ Invoke(w, "react_agent", "")
    /\ result' = [result EXCEPT ![w] = [@ EXCEPT !.requires_approval = TRUE,
                                                 !.body = DraftResult.body]]
    /\ Goto(w, "d_reg")
    /\ UNCHANGED <<hub, poller, loop_running, background_loop, registry, decision, edited_content, sent, waits, handler>>

\* lines 329-354: react_agent_node raises; caught at line 344: broadcast
\* workflow_error ("Failed to create draft"), return
DraftRaise(w) ==
    /\ pc[w] = "draft"
    /\ InvokeRaise(w, "react_agent", "")
    /\ Broadcast(w, "workflow_error", "")
    /\ Goto(w, "done")
    /\ UNCHANGED <<hub, poller, loop_running, background_loop, registry, locals, waits, handler>>

\* the deny branch without its audit write
DenyAuditSkipped(w) ==
    /\ pc[w] = "deny"
    /\ Broadcast(w, "workflow_complete", "denied")
    /\ Goto(w, "done")
    /\ UNCHANGED <<hub, poller, loop_running, background_loop, registry, locals, calls, waits, handler>>

\* lines 418-440: decision "deny": memory.save_email_interaction(...,
\* human_approved=False), broadcast workflow_complete (denied), return
Deny(w) ==
    /\ pc[w] = "deny"
    /\ Invoke(w, "save_email_interaction", "")
    /\ Broadcast(w, "workflow_complete", "denied")
    /\ Goto(w, "done")
    /\ UNCHANGED <<hub, poller, loop_running, background_loop, registry, locals, waits, handler>>

\* lines 418-432, save_email_interaction raises; caught at line 532
DenyAuditRaise(w) ==
    /\ pc[w] = "deny"
    /\ InvokeRaise(w, "save_email_interaction", "")
    /\ ExceptBroadcast(w)
    /\ Goto(w, "done")
    /\ UNCHANGED <<hub, poller, loop_running, background_loop, registry, locals, waits, handler>>

\* the pending action handed over without the edit substituted
ExecBodyUnedited(w) == result[w].body

\* lines 448-466: the body of the pending action handed to execute_action_node
ExecBody(w) ==
    IF decision[w] = "edit" /\ edited_content[w] # ""
       THEN edited_content[w]
       ELSE result[w].body

\* lines 483-486: execute_action_node(updated_state) returns
Execute(w) ==
    /\ pc[w] = "exec"
    /\ Invoke(w, "execute_action", ExecBody(w))
    /\ Goto(w, "upd_mem")
    /\ UNCHANGED <<hub, poller, loop_running, background_loop, registry, locals, sent, waits, handler>>

\* lines 483-486 raise; caught at line 512: broadcast workflow_error
\* ("Execution failed")
ExecuteRaise(w) ==
    /\ pc[w] = "exec"
    /\ InvokeRaise(w, "execute_action", ExecBody(w))
    /\ Broadcast(w, "workflow_error", "")
    /\ Goto(w, "done")
    /\ UNCHANGED <<hub, poller, loop_running, background_loop, registry, locals, waits, handler>>

\* lines 495-510: update_memory_node(execution_result) returns; broadcast
\* workflow_complete carrying the decision
UpdateMemory(w) ==
    /\ pc[w] = "upd_mem"
    /\ Invoke(w, "update_memory", "")
    /\ Broadcast(w, "workflow_complete", decision[w])
    /\ Goto(w, "done")
    /\ UNCHANGED <<hub, poller, loop_running, background_loop, registry, locals, waits, handler>>

\* lines 495-498 raise; caught at line 512: broadcast workflow_error
UpdateMemoryRaise(w) ==
    /\ pc[w] = "upd_mem"
    /\ InvokeRaise(w, "update_memory", "")
    /\ Broadcast(w, "workflow_error", "")
    /\ Goto(w, "done")
    /\ UNCHANGED <<hub, poller, loop_running, background_loop, registry, locals, waits, handler>>

\* lines 523-530: no approval needed: broadcast workflow_complete (auto_approved)
AutoBroadcast(w) ==
    /\ pc[w] = "auto_bc"
    /\ Broadcast(w, "workflow_complete", "auto_approved")
    /\ Goto(w, "done")
    /\ UNCHANGED <<hub, poller, loop_running, background_loop, registry, locals, calls, waits, handler>>

\* ----------------------------------------------------- human_decision handler
\* lines 109-119: if workflow_id in approval_events: set the event, through
\* the background loop when there is one
Signal(w) ==
    IF w \in DOMAIN approval_events
       THEN IF background_loop
               THEN /\ scheduled' = scheduled \cup {<<w, approval_events[w]>>}
                    /\ UNCHANGED event_set
               ELSE /\ event_set' = [event_set EXCEPT ![w][approval_events[w]] = TRUE]
                    /\ UNCHANGED scheduled
       ELSE UNCHANGED <<event_set, scheduled>>

\* the removal clearing the whole dictionary instead of one key
RemovePendingAll(w) == pending_approvals' = << >>

\* lines 122-123: if workflow_id in pending_approvals: del pending_approvals[workflow_id]
RemovePending(w) == pending_approvals' = Del(pending_approvals, w)

\* a decision client knows a workflow_id only from an approval_required (or
\* approval_request) notification it was sent
Advertised(w) == \E i \in 1..Len(sent[w]) : sent[w][i].type = "approval_required"

\* a handler that signals and removes the pending entry without storing the
\* decision
ReceiveDecisionUnstored(w, d) ==
    /\ hpc = "idle"
    /\ Advertised(w)
    /\ received < MaxDecisions
    /\ received' = received + 1
    /\ hmsg' = [workflow_id |-> w]
    /\ heard' = IF pc[w] \in {"n_wait", "d_wait"} /\ w \notin DOMAIN heard
                   THEN Put(heard, w, d)
                   ELSE heard
    /\ IF background_loop
          THEN /\ hpc' = "signal"
               /\ UNCHANGED <<pending_approvals, event_set, scheduled>>
          ELSE /\ UNCHANGED hpc
               /\ Signal(w)
               /\ RemovePending(w)
    /\ UNCHANGED <<hub, poller, loop_running, background_loop, approval_events,
                   approval_decisions, pc, locals, calls, sent, waits>>

\* lines 89-106: a human_decision message arrives and the decision is stored.
\* On a single event loop lines 109-123 follow without an await.
ReceiveDecision(w, d) ==
    /\ hpc = "idle"
    /\ Advertised(w)
    /\ received < MaxDecisions
    /\ received' = received + 1
    /\ hmsg' = [workflow_id |-> w]
    /\ approval_decisions' = Put(approval_decisions, w, d)
    /\ heard' = IF pc[w] \in {"n_wait", "d_wait"} /\ w \notin DOMAIN heard
                   THEN Put(heard, w, d)
                   ELSE heard
    /\ IF background_loop
          THEN /\ hpc' = "signal"
               /\ UNCHANGED <<pending_approvals, event_set, scheduled>>
          ELSE /\ UNCHANGED hpc
               /\ Signal(w)
               /\ RemovePending(w)
    /\ UNCHANGED <<hub, poller, loop_running, background_loop, approval_events, pc, locals, calls, sent, waits>>

\* lines 109-116, when the coordinator runs on the background loop's thread
HandlerSignal ==
    /\ hpc = "signal"
    /\ Signal(hmsg.workflow_id)
    /\ hpc' = "remove"
    /\ UNCHANGED <<hub, poller, loop_running, background_loop, pending_approvals, approval_events, approval_decisions,
                   pc, locals, calls, sent, waits, hmsg, received, heard>>

\* lines 122-130, when the coordinator runs on the background loop's thread:
\* remove the pending entry, reply decision_recorded, wait for the next message
HandlerRemove ==
    /\ hpc = "remove"
    /\ RemovePending(hmsg.workflow_id)
    /\ hpc' = "idle"
    /\ UNCHANGED <<hub, poller, loop_running, background_loop, approval_events, approval_decisions, event_set,
                   scheduled, pc, locals, calls, sent, waits, hmsg, received, heard>>

\* lines 25-27: a scheduled _set_event coroutine runs on the background loop
SetEvent(w, g) ==
    /\ <<w, g>> \in scheduled
    /\ scheduled' = scheduled \ {<<w, g>>}
    /\ event_set' = [event_set EXCEPT ![w][g] = TRUE]
    /\ UNCHANGED <<hub, poller, loop_running, background_loop, pending_approvals, approval_events, approval_decisions,
                   pc, locals, calls, sent, waits, handler>>

\* ------------------------------------------------------------ specification
Coordinator(w) ==
    \/ Submit(w)
    \/ \E r \in Stage1Results : Stage1Return(w, r)
    \/ Stage1Raise(w)
    \/ TriageBroadcast(w)
    \/ RegisterPending(w)
    \/ RegisterEvent(w)
    \/ ApprovalBroadcast(w)
    \/ Resume(w)
    \/ Timeout(w)
    \/ Ignore(w)
    \/ IgnoreAuditRaise(w)
    \/ DraftReturn(w)
    \/ DraftRaise(w)
    \/ Deny(w)
    \/ DenyAuditRaise(w)
    \/ Execute(w)
    \/ ExecuteRaise(w)
    \/ UpdateMemory(w)
    \/ UpdateMemoryRaise(w)
    \/ AutoBroadcast(w)

Handler ==
    \/ \E w \in Workflows, d \in DecisionInputs : ReceiveDecision(w, d)
    \/ HandlerSignal
    \/ HandlerRemove

Next ==
    \/ \E w \in Workflows : Coordinator(w)
    \/ Handler
    \/ \E w \in Workflows, g \in Gens : SetEvent(w, g)

Spec == Init /\ [][Next]_vars

\* the event loop runs every coroutine that is ready: a workflow whose next
\* step is possible (its stage returns or raises, its broadcast completes, its
\* wait is signalled or its 600 s run out) eventually takes it
FairSpec == Spec /\ \A w \in Workflows : WF_vars(Coordinator(w))

\* ===================================================================== hub
\* The connection list and the two loops that iterate shared containers
\* across awaits: broadcast_message over websocket_connections, and the join
\* snapshot of websocket_endpoint over pending_approvals.  Workflows and
\* decisions appear here only through what they do to pending_approvals.
workflows == <<background_loop, loop_running, approval_events, approval_decisions, event_set,
               scheduled, pc, locals, calls, sent, waits, handler>>

\* ws in websocket_connections
InList(lst, c) == \E i \in 1..Len(lst) : lst[i] = c

\* list.remove(ws): drops the first occurrence
RemoveFirst(lst, c) ==
    LET i == CHOOSE k \in 1..Len(lst) : lst[k] = c /\ \A j \in 1..(k - 1) : lst[j] # c
    IN SubSeq(lst, 1, i - 1) \o SubSeq(lst, i + 1, Len(lst))

\* the join loop of an endpoint is over: what is kept of it is whether every
\* entry that was in pending_approvals at the join was sent
Listening(e) ==
    [e EXCEPT !.pc = "listening", !.complete = e.at_join \subseteq e.yielded,
              !.at_join = {}, !.yielded = {}, !.dirty = FALSE]

\* lines 75-82: accept, append to websocket_connections, start the loop over
\* pending_approvals.items(); the first item (if any) is sent
Connect(c) ==
    /\ endpoint[c].pc = "new"
    /\ websocket_connections' = Append(websocket_connections, c)
    /\ LET keys == DOMAIN pending_approvals
       IN IF keys = {}
             THEN endpoint' = [endpoint EXCEPT ![c] = Listening(@)]
             ELSE \E k \in keys :
                    endpoint' = [endpoint EXCEPT ![c] =
                        [@ EXCEPT !.pc = "snapshot", !.yielded = {k}, !.at_join = keys]]
    /\ UNCHANGED <<broadcasts, pending_approvals, workflows, poller>>

\* the dict iterator's check on each step: the dict has the size it had when
\* the iteration started
SameSize(c) == Cardinality(DOMAIN pending_approvals) = Cardinality(endpoint[c].at_join)

\* lines 79-83: the send returned; the loop takes the next item and sends it,
\* or ends and the endpoint starts listening (line 87).  A dict changed during
\* the iteration without changing size may still be iterated.
SnapshotNext(c) ==
    /\ endpoint[c].pc = "snapshot"
    /\ endpoint[c].alive
    /\ SameSize(c)
    /\ LET todo == DOMAIN pending_approvals \ endpoint[c].yielded
       IN IF todo = {}
             THEN endpoint' = [endpoint EXCEPT ![c] = Listening(@)]
             ELSE \E k \in todo :
                    endpoint' = [endpoint EXCEPT ![c].yielded = @ \cup {k}]
    /\ UNCHANGED <<websocket_connections, broadcasts, pending_approvals, workflows, poller>>

\* the endpoint coroutine has returned
Exited(e) ==
    [e EXCEPT !.pc = "exited", !.at_join = {}, !.yielded = {}, !.dirty = FALSE]

\* lines 135-137: except Exception: remove the websocket if it is in the list
ExceptRemove(c) ==
    websocket_connections' =
        IF InList(websocket_connections, c)
           THEN RemoveFirst(websocket_connections, c)
           ELSE websocket_connections

\* line 79: the dict iterator raises RuntimeError (changed size during
\* iteration; possibly also when it changed keeping its size); caught at
\* line 135, the endpoint returns and the connection is closed
SnapshotRaise(c) ==
    /\ endpoint[c].pc = "snapshot"
    /\ ~SameSize(c) \/ endpoint[c].dirty
    /\ ExceptRemove(c)
    /\ endpoint' = [endpoint EXCEPT ![c] = Exited(@)]
    /\ UNCHANGED <<broadcasts, pending_approvals, workflows, poller>>

\* the peer of a connection goes away: sends and receives on it raise from now on
PeerGone(c) ==
    /\ endpoint[c].pc \in {"snapshot", "listening"}
    /\ endpoint[c].alive
    /\ endpoint' = [endpoint EXCEPT ![c].alive = FALSE]
    /\ UNCHANGED <<websocket_connections, broadcasts, pending_approvals, workflows, poller>>

\* lines 80 / 88 raise on a connection whose peer is gone; lines 132-137: the
\* websocket is removed from the list (line 133 raises ValueError out of the
\* endpoint when a broadcast has removed it already) and the endpoint returns
EndpointDisconnect(c) ==
    /\ endpoint[c].pc \in {"snapshot", "listening"}
    /\ ~endpoint[c].alive
    /\ ExceptRemove(c)
    /\ endpoint' = [endpoint EXCEPT ![c] = Exited(@)]
    /\ UNCHANGED <<broadcasts, pending_approvals, workflows, poller>>

\* a pending_approvals entry appears or disappears under a running iteration
Touch(e) == IF e.pc = "snapshot" THEN [e EXCEPT !.dirty = TRUE] ELSE e

\* line 250 / 383 of a workflow: pending_approvals[workflow_id] = approval_data
HubRegister(w) ==
    /\ w \notin DOMAIN pending_approvals
    /\ pending_approvals' = Put(pending_approvals, w, ApprovalData(w, TRUE))
    /\ endpoint' = [c \in Conns |-> Touch(endpoint[c])]
    /\ UNCHANGED <<websocket_connections, broadcasts, workflows, poller>>

\* lines 122-123 of a decision: del pending_approvals[workflow_id]
HubRemove(w) ==
    /\ w \in DOMAIN pending_approvals
    /\ pending_approvals' = Del(pending_approvals, w)
    /\ endpoint' = [c \in Conns |-> Touch(endpoint[c])]
    /\ UNCHANGED <<websocket_connections, broadcasts, workflows, poller>>

\* line 140-142: broadcast_message is called: disconnected = [], the loop starts
BroadcastStart(b) ==
    /\ broadcasts[b].pc = "idle"
    /\ broadcasts' = [broadcasts EXCEPT ![b] =
          [@ EXCEPT !.pc = "loop",
                    !.start = {c \in Conns : InList(websocket_connections, c)
                                             /\ endpoint[c].alive}]]
    /\ UNCHANGED <<websocket_connections, endpoint, pending_approvals, workflows, poller>>

\* lines 143-147: the list iterator yields the element at its index, if there
\* is one, and ws.send_json is awaited: it returns, or raises and the websocket
\* is appended to disconnected
BroadcastNext(b) ==
    /\ broadcasts[b].pc = "loop"
    /\ LET i == broadcasts[b].index
       IN IF i < Len(websocket_connections)
             THEN LET ws == websocket_connections[i + 1]
                  IN broadcasts' = [broadcasts EXCEPT ![b] =
                        IF endpoint[ws].alive
                           THEN [@ EXCEPT !.index = i + 1, !.delivered = @ \cup {ws}]
                           ELSE [@ EXCEPT !.index = i + 1,
                                          !.disconnected = Append(@, ws)]]
             ELSE broadcasts' = [broadcasts EXCEPT ![b].pc = "cleanup"]
    /\ UNCHANGED <<websocket_connections, endpoint, pending_approvals, workflows, poller>>

\* lines 149-150: for ws in disconnected: websocket_connections.remove(ws);
\* remove raises ValueError when ws is not in the list
RECURSIVE RemoveEach(_, _)
RemoveEach(lst, dis) ==
    IF dis = << >> THEN [list |-> lst, raised |-> FALSE]
    ELSE IF ~InList(lst, Head(dis)) THEN [list |-> lst, raised |-> TRUE]
    ELSE RemoveEach(RemoveFirst(lst, Head(dis)), Tail(dis))

\* the call is over: what is kept of it is how it ended, the connections that
\* were in the list with a live peer from the call to the return and were not
\* sent the message, and the connections whose send failed that still are in
\* the list
Returned(bc, r) ==
    [NoBroadcast EXCEPT
        !.pc = IF r.raised THEN "raised" ELSE "returned",
        !.missed = {c \in bc.start \ bc.delivered :
                       endpoint[c].alive /\ InList(r.list, c)},
        !.stale = {c \in Conns : InList(bc.disconnected, c) /\ InList(r.list, c)}]

\* lines 149-150, then the return to the caller (or the ValueError)
BroadcastCleanup(b) ==
    /\ broadcasts[b].pc = "cleanup"
    /\ LET r == RemoveEach(websocket_connections, broadcasts[b].disconnected)
       IN /\ websocket_connections' = r.list
          /\ broadcasts' = [broadcasts EXCEPT ![b] = Returned(@, r)]
    /\ UNCHANGED <<endpoint, pending_approvals, workflows, poller>>

\* broadcasts interleaved with connects and disconnects
HubNext ==
    \/ \E c \in Conns : Connect(c)
    \/ \E c \in Conns : PeerGone(c)
    \/ \E c \in Conns : EndpointDisconnect(c)
    \/ \E b \in Broadcasters : BroadcastStart(b)
    \/ \E b \in Broadcasters : BroadcastNext(b)
    \/ \E b \in Broadcasters : BroadcastCleanup(b)

HubSpec == Init /\ [][HubNext]_vars

\* joins interleaved with registrations and removals of PendingApprovals
JoinNext ==
    \/ \E c \in Conns : Connect(c)
    \/ \E c \in Conns : SnapshotNext(c)
    \/ \E c \in Conns : SnapshotRaise(c)
    \/ \E c \in Conns : PeerGone(c)
    \/ \E c \in Conns : EndpointDisconnect(c)
    \/ \E w \in Workflows : HubRegister(w)
    \/ \E w \in Workflows : HubRemove(w)

JoinSpec == Init /\ [][JoinNext]_vars

\* ================================================================== poller
\* GmailPoller.start_polling and fetch_unread_emails: one thread, which the
\* inbox and stop() (called from another thread) run beside.
server == <<hub, workflows, pending_approvals>>

\* the ids of a set in ascending order
RECURSIVE SortedSeq(_)
SortedSeq(S) ==
    IF S = {} THEN << >>
    ELSE LET m == CHOOSE x \in S : \A y \in S : x <= y
         IN <<m>> \o SortedSeq(S \ {m})

\* lines 199-210: start_polling is called
StartPolling ==
    /\ ppc = "idle"
    /\ running' = TRUE
    /\ consecutive_errors' = 0
    /\ ppc' = "fetch"
    /\ UNCHANGED <<processed_ids, messages, emails, unread, arrived, faults, item, cycle,
                   owed, cooldowns, server>>

\* a loop that fetches without testing self.running
ListMessagesAnyway(k, dup) ==
    /\ ppc \in {"fetch", "list"}
    /\ cycle.n < MaxCycles
    /\ cycle.n > 0 => k = 0
    /\ LET u == unread \cup ((arrived + 1)..(arrived + k))
           lst == SortedSeq(u)
       IN /\ dup => lst # << >>
          /\ unread' = u
          /\ arrived' = arrived + k
          /\ messages' = IF dup THEN Append(lst, Head(lst)) ELSE lst
          /\ cycle' = [n |-> cycle.n + 1,
                       fetched |-> IF lst = << >> THEN "empty" ELSE "items",
                       listed |-> u \ processed_ids, failed |-> {},
                       stopped_at |-> cycle.stopped_at]
          /\ ppc' = IF lst = << >> THEN "check" ELSE "items"
    /\ emails' = << >>
    /\ UNCHANGED <<running, processed_ids, consecutive_errors, faults, item, owed,
                   cooldowns, server>>

\* lines 215, 42-51: fetch_unread_emails lists the unread inbox messages (k
\* have arrived before the first cycle; the listing may name its first message
\* twice).  An empty listing returns [] and the cycle goes on at line 243.
ListMessages(k, dup) ==
    /\ ppc = "list"
    /\ cycle.n > 0 => k = 0
    /\ LET u == unread \cup ((arrived + 1)..(arrived + k))
           lst == SortedSeq(u)
       IN /\ dup => lst # << >>
          /\ unread' = u
          /\ arrived' = arrived + k
          /\ messages' = IF dup THEN Append(lst, Head(lst)) ELSE lst
          /\ cycle' = [n |-> cycle.n + 1,
                       fetched |-> IF lst = << >> THEN "empty" ELSE "items",
                       listed |-> u \ processed_ids, failed |-> {},
                       stopped_at |-> cycle.stopped_at]
          /\ ppc' = IF lst = << >> THEN "check" ELSE "items"
    /\ emails' = << >>
    /\ UNCHANGED <<running, processed_ids, consecutive_errors, faults, item, owed,
                   cooldowns, server>>

\* lines 42-46 raise; caught at line 80: fetch_unread_emails returns [] and
\* the cycle goes on at line 243
ListRaises ==
    /\ ppc = "list"
    /\ faults < MaxFaults
    /\ faults' = faults + 1
    /\ cycle' = [n |-> cycle.n + 1, fetched |-> "raised", listed |-> {}, failed |-> {},
                 stopped_at |-> cycle.stopped_at]
    /\ messages' = << >>
    /\ emails' = << >>
    /\ ppc' = "check"
    /\ UNCHANGED <<running, processed_ids, consecutive_errors, unread, arrived, item,
                   owed, cooldowns, server>>

\* line 212: the loop test passes and a cycle begins; stop() may be called
\* from another thread before the fetch of line 215 runs
LoopEnter ==
    /\ ppc = "fetch"
    /\ running
    /\ cycle.n < MaxCycles
    /\ ppc' = "list"
    /\ UNCHANGED <<running, processed_ids, consecutive_errors, messages, emails, unread,
                   arrived, faults, item, cycle, owed, cooldowns, server>>

\* line 212: the loop test fails after stop()
LoopExit ==
    /\ ppc = "fetch"
    /\ ~running
    /\ ppc' = "stopped"
    /\ UNCHANGED <<running, processed_ids, consecutive_errors, messages, emails, unread,
                   arrived, faults, item, cycle, owed, cooldowns, server>>

\* lines 54-57: the message is in processed_ids: continue
SkipSeen ==
    /\ ppc = "items"
    /\ messages # << >>
    /\ Head(messages) \in processed_ids
    /\ messages' = Tail(messages)
    /\ UNCHANGED <<running, processed_ids, consecutive_errors, ppc, emails, unread,
                   arrived, faults, item, cycle, owed, cooldowns, server>>

\* a fetch that does not record the id in processed_ids
FetchItemForgets ==
    /\ ppc = "items"
    /\ messages # << >>
    /\ Head(messages) \notin processed_ids
    /\ messages' = Tail(messages)
    /\ emails' = Append(emails, Head(messages))
    /\ cycle' = [cycle EXCEPT !.failed = @ \ {Head(messages)}]
    /\ UNCHANGED <<running, processed_ids, consecutive_errors, ppc, unread, arrived, faults, item,
                   owed, cooldowns, server>>

\* lines 60-72: the message is fetched and parsed: appended to emails and
\* added to processed_ids
FetchItemOk ==
    /\ ppc = "items"
    /\ messages # << >>
    /\ Head(messages) \notin processed_ids
    /\ messages' = Tail(messages)
    /\ emails' = Append(emails, Head(messages))
    /\ processed_ids' = processed_ids \cup {Head(messages)}
    /\ cycle' = [cycle EXCEPT !.failed = @ \ {Head(messages)}]
    /\ UNCHANGED <<running, consecutive_errors, ppc, unread, arrived, faults, item,
                   owed, cooldowns, server>>

\* lines 60-76: messages.get raises (caught at line 74) or _parse_message
\* returns None: the message is skipped
FetchItemFails ==
    /\ ppc = "items"
    /\ messages # << >>
    /\ Head(messages) \notin processed_ids
    /\ faults < MaxFaults
    /\ faults' = faults + 1
    /\ messages' = Tail(messages)
    /\ cycle' = [cycle EXCEPT !.failed = @ \cup {Head(messages)}]
    /\ UNCHANGED <<running, processed_ids, consecutive_errors, ppc, emails, unread,
                   arrived, item, owed, cooldowns, server>>

\* line 78, lines 217-220 / 243: fetch_unread_emails returns emails
ReturnEmails ==
    /\ ppc = "items"
    /\ messages = << >>
    /\ ppc' = IF emails = << >> THEN "check" ELSE "callbacks"
    /\ UNCHANGED <<running, processed_ids, consecutive_errors, messages, emails, unread,
                   arrived, faults, item, cycle, owed, cooldowns, server>>

\* after the callback of one email: the next one, or line 249
NextEmail == IF Tail(emails) = << >> THEN "check" ELSE "callbacks"

\* lines 228-236: callback(email) returns; mark_as_read is called, which
\* removes the UNREAD label or fails (caught at line 171); the counter is reset
CallbackReturns(marked) ==
    /\ ppc = "callbacks"
    /\ emails # << >>
    /\ item' = [item EXCEPT ![Head(emails)] =
                  [@ EXCEPT !.invoked = @ + 1, !.outcome = "ok",
                            !.mark = IF marked THEN "ok" ELSE "failed"]]
    /\ unread' = IF marked THEN unread \ {Head(emails)} ELSE unread
    /\ ~marked => faults < MaxFaults
    /\ faults' = IF marked THEN faults ELSE faults + 1
    /\ consecutive_errors' = 0
    /\ emails' = Tail(emails)
    /\ ppc' = NextEmail
    /\ UNCHANGED <<running, processed_ids, messages, arrived, cycle, owed, cooldowns, server>>

\* a callback error that ends the loop over the emails
CallbackRaisesAborts ==
    /\ ppc = "callbacks"
    /\ emails # << >>
    /\ item' = [item EXCEPT ![Head(emails)] =
                  [@ EXCEPT !.invoked = @ + 1, !.outcome = "raised"]]
    /\ consecutive_errors' = consecutive_errors + 1
    /\ owed' = (owed \/ consecutive_errors + 1 = max_errors)
    /\ emails' = << >>
    /\ ppc' = "check"
    /\ UNCHANGED <<running, processed_ids, messages, unread, arrived, faults, cycle, cooldowns, server>>

\* a callback error after which the email is marked read all the same
CallbackRaisesMarks ==
    /\ ppc = "callbacks"
    /\ emails # << >>
    /\ item' = [item EXCEPT ![Head(emails)] =
                  [@ EXCEPT !.invoked = @ + 1, !.outcome = "raised", !.mark = "ok"]]
    /\ unread' = unread \ {Head(emails)}
    /\ consecutive_errors' = consecutive_errors + 1
    /\ owed' = (owed \/ consecutive_errors + 1 = max_errors)
    /\ emails' = Tail(emails)
    /\ ppc' = NextEmail
    /\ UNCHANGED <<running, processed_ids, messages, arrived, faults, cycle, cooldowns, server>>

\* lines 228-242: callback(email) raises; caught at line 238: the counter is
\* incremented
CallbackRaises ==
    /\ ppc = "callbacks"
    /\ emails # << >>
    /\ item' = [item EXCEPT ![Head(emails)] =
                  [@ EXCEPT !.invoked = @ + 1, !.outcome = "raised"]]
    /\ consecutive_errors' = consecutive_errors + 1
    /\ owed' = (owed \/ consecutive_errors + 1 = max_errors)
    /\ emails' = Tail(emails)
    /\ ppc' = NextEmail
    /\ UNCHANGED <<running, processed_ids, messages, unread, arrived, faults, cycle, cooldowns, server>>

\* lines 249-256: consecutive_errors >= max_errors: sleep 300 s, reset the
\* counter, then sleep poll_interval
Cooldown ==
    /\ ppc = "check"
    /\ consecutive_errors >= max_errors
    /\ cooldowns' = cooldowns + 1
    /\ consecutive_errors' = 0
    /\ owed' = FALSE
    /\ ppc' = "fetch"
    /\ UNCHANGED <<running, processed_ids, messages, emails, unread, arrived, faults, item,
                   cycle, server>>

\* lines 249, 256: consecutive_errors < max_errors: sleep poll_interval
Sleep ==
    /\ ppc = "check"
    /\ consecutive_errors < max_errors
    /\ ppc' = "fetch"
    /\ UNCHANGED <<running, processed_ids, consecutive_errors, messages, emails, unread,
                   arrived, faults, item, cycle, owed, cooldowns, server>>

\* lines 268-270: stop() is called while the poller runs
Stop ==
    /\ running
    /\ running' = FALSE
    /\ cycle' = [cycle EXCEPT !.stopped_at = ppc]
    /\ UNCHANGED <<processed_ids, consecutive_errors, ppc, messages, emails, unread,
                   arrived, faults, item, owed, cooldowns, server>>

PollerNext ==
    \/ StartPolling
    \/ \E k \in 0..(MaxIds - arrived), dup \in BOOLEAN : ListMessages(k, dup)
    \/ ListRaises
    \/ LoopEnter
    \/ LoopExit
    \/ SkipSeen
    \/ FetchItemOk
    \/ FetchItemFails
    \/ ReturnEmails
    \/ \E marked \in BOOLEAN : CallbackReturns(marked)
    \/ CallbackRaises
    \/ Cooldown
    \/ Sleep
    \/ Stop

\* run_server.py lines 153-171: main shares the background loop with the UI
\* module before it starts the poller
PollerInit == Init /\ background_loop

PollerSpec == PollerInit /\ [][PollerNext]_vars

\* =============================================================== shutdown
\* gmail_poller.py lines 258-261: Ctrl+C while start_polling runs: the loop
\* clears self.running and breaks
Interrupt ==
    /\ ppc \notin {"idle", "stopped"}
    /\ running' = FALSE
    /\ ppc' = "stopped"
    /\ UNCHANGED <<processed_ids, consecutive_errors, messages, emails, unread,
                   arrived, faults, item, cycle, owed, cooldowns, server>>

\* run_server.py lines 141-142, 170-183: start_polling has returned (or the
\* handler of lines 172-180 has stopped the background loop); main returns and
\* the process ends with its daemon threads, the background loop among them
MainReturns ==
    /\ ppc = "stopped"
    /\ loop_running
    /\ loop_running' = FALSE
    /\ UNCHANGED <<background_loop, registry, pc, locals, calls, sent, waits, handler,
                   hub, poller>>

\* the workflows and the decision handler, which run while the loop runs,
\* beside a poller that is started, stopped or interrupted
ShutdownNext ==
    \/ (loop_running /\ Next)
    \/ StartPolling
    \/ Stop
    \/ LoopExit
    \/ Interrupt
    \/ MainReturns

ShutdownSpec == PollerInit /\ [][ShutdownNext]_vars

\* the steps of the thread that runs start_polling: every call it makes
\* (the listing, the callback, time.sleep) returns, so the thread keeps going
PollerStep ==
    \/ \E k \in 0..(MaxIds - arrived), dup \in BOOLEAN : ListMessages(k, dup)
    \/ ListRaises
    \/ LoopEnter
    \/ LoopExit
    \/ SkipSeen
    \/ FetchItemOk
    \/ FetchItemFails
    \/ ReturnEmails
    \/ \E marked \in BOOLEAN : CallbackReturns(marked)
    \/ CallbackRaises
    \/ Cooldown
    \/ Sleep

PollerFairSpec == PollerInit /\ [][PollerNext]_vars /\ WF_vars(PollerStep)

\* ------------------------------------------------------------------ helpers
Count(seq, Test(_)) == Len(SelectSeq(seq, Test))

IsTerminal(n) == n.type \in {"workflow_complete", "workflow_timeout", "workflow_error"}

\* the terminal notifications broadcast for a workflow, in order
TerminalSent(w) == SelectSeq(sent[w], IsTerminal)

HasSent(w, type) == \E i \in 1..Len(sent[w]) : sent[w][i].type = type

IsAuditWrite(c) == c.stage \in {"save_email_interaction", "update_memory"}

IsExecution(c) == c.stage = "execute_action"

IsDraftOnly(c) == c.stage = "react_agent"

Suspensions(w) == 1..Len(waits[w])

TimedOut(w) == HasSent(w, "workflow_timeout")

\* the outcome a finished workflow announced in its first terminal notification
Outcome(w) ==
    LET n == TerminalSent(w)[1]
    IN CASE n.type = "workflow_timeout" -> "timed_out"
         [] n.type = "workflow_error" -> "error"
         [] n.decision = "ignored" -> "ignored"
         [] n.decision = "denied" -> "denied"
         [] n.decision = "auto_approved" -> "auto_approved"
         [] OTHER -> "executed"

\* ------------------------------------------------------------------- claims
\* the step in which the coordinator of w wakes up and reads the decision
Resumes(w) ==
    /\ pc[w] \in {"n_wait", "d_wait"}
    /\ waits'[w][Len(waits[w])].state = "resumed"

\* the step in which the wait of w times out
TimesOut(w) ==
    /\ pc[w] \in {"n_wait", "d_wait"}
    /\ waits'[w][Len(waits[w])].state = "timeout"

\* C1: for one suspension, the verdict and edited content the coordinator acts
\* on are those of the first decision received while that suspension waited;
\* later decisions do not change them.
C1_FirstDecisionWins ==
    [][\A w \in Workflows : (Resumes(w) /\ w \in DOMAIN heard)
          => /\ decision'[w] = heard[w].decision
             /\ pc[w] = "d_wait" => edited_content'[w] = heard[w].edited_content]_vars

\* C2: the signal of a suspension is in the registry from before the
\* approval_required broadcast until the wait ends, and a suspension for which
\* a decision was received after the broadcast and before the timeout does
\* not end by timeout.
C2_DecisionNeverMissed ==
    /\ [](\A w \in Workflows : pc[w] \in {"n_bc", "n_wait", "d_bc", "d_wait"}
             => (w \in DOMAIN approval_events /\ approval_events[w] = Len(waits[w])))
    /\ [][\A w \in Workflows : TimesOut(w) => w \notin DOMAIN heard]_vars

\* the workflow a step of the decision handler (or of a _set_event it
\* scheduled) is about
IsHandlerStepFor(a) ==
    \/ received' # received /\ hmsg'.workflow_id = a
    \/ hpc # "idle" /\ hpc' # hpc /\ hmsg.workflow_id = a
    \/ \E g \in Gens : <<a, g>> \in scheduled /\ <<a, g>> \notin scheduled'

InRegistry(d, w) == IF w \in DOMAIN d THEN <<TRUE, d[w]>> ELSE <<FALSE>>

\* everything the model holds about workflow b
WorkflowState(b) ==
    <<pc[b], result[b], decision[b], edited_content[b], calls[b], sent[b], waits[b],
      InRegistry(pending_approvals, b), InRegistry(approval_events, b),
      InRegistry(approval_decisions, b), event_set[b],
      {g \in Gens : <<b, g>> \in scheduled}>>

\* C3: a human_decision carrying workflow_id a changes nothing of any other
\* workflow b: not its stage, PendingApproval, SuspensionSignal, stored
\* decision, invocations or notifications.
C3_DecisionAffectsOnlyItsWorkflow ==
    [][\A a \in Workflows : IsHandlerStepFor(a)
          => \A b \in Workflows \ {a} : WorkflowState(b)' = WorkflowState(b)]_vars

\* C3 witness: a decision for one workflow has resumed it while another
\* workflow is still suspended with its PendingApproval and no decision.
C3_Witness ==
    \E a \in Workflows : \E b \in Workflows \ {a} :
        /\ Len(waits[a]) >= 1 /\ waits[a][1].state = "resumed"
        /\ a \in DOMAIN approval_decisions
        /\ pc[b] \in {"n_wait", "d_wait"}
        /\ b \in DOMAIN pending_approvals
        /\ b \notin DOMAIN approval_decisions
        /\ ~event_set[b][approval_events[b]]

\* C4: a workflow that timed out is finished and its PendingApproval is no
\* longer in the registry.
C4_TimeoutRemovesPending ==
    \A w \in Workflows :
        TimedOut(w) => (pc[w] = "done" /\ w \notin DOMAIN pending_approvals)

\* C5: a decision that arrives after the workflow timed out is stored, and
\* once a workflow has timed out nothing moves it: no stage or audit call is
\* made and no further notification is broadcast for it.
C5_LateDecisionInert ==
    [][\A w \in Workflows : TimedOut(w)
          => /\ pc[w] = "done" /\ pc'[w] = "done"
             /\ calls'[w] = calls[w]
             /\ sent'[w] = sent[w]
             /\ waits'[w] = waits[w]
             /\ (received' # received /\ hmsg'.workflow_id = w)
                => w \in DOMAIN approval_decisions']_vars

\* C5 witness: on a single event loop a decision received during the wait sets
\* the event at once, so a timed-out workflow whose event is set got its
\* decision after the timeout; the handler has stored it and is through.
C5_Witness ==
    \E w \in Workflows :
        /\ ~background_loop
        /\ TimedOut(w)
        /\ event_set[w][Len(waits[w])]
        /\ w \in DOMAIN approval_decisions
        /\ hpc = "idle"

\* C6: a finished workflow has broadcast exactly one terminal notification.
C6_ExactlyOneTerminal ==
    \A w \in Workflows : pc[w] = "done" => Len(TerminalSent(w)) = 1

\* C7: when the decision that resolves a suspension is deny or ignore, the
\* execution stage is never invoked and the workflow is not suspended again.
C7_DenyIgnoreNoExecution ==
    \A w \in Workflows : \A g \in Suspensions(w) :
        (waits[w][g].state = "resumed" /\ waits[w][g].decision \in {"deny", "ignore"})
        => /\ Count(calls[w], IsExecution) = 0
           /\ Len(waits[w]) = g

Resolving(w) == waits[w][Len(waits[w])]

\* C9 as stated: the body passed to the execution stage is the decision's
\* edited_content for verdict edit, the unmodified draft body for approve.
C9_EditPassesEditedContent ==
    \A w \in Workflows : \A i \in 1..Len(calls[w]) :
        IsExecution(calls[w][i])
        => /\ Resolving(w).decision = "edit"
              => calls[w][i].body = Resolving(w).edited_content
           /\ Resolving(w).decision = "approve"
              => calls[w][i].body = result[w].body

\* C9 amended: for verdict edit with non-empty edited_content the body passed
\* to the execution stage is the edited_content; for edit with empty
\* edited_content and for approve it is the unmodified draft body.
C9_ExecBodyFollowsDecision ==
    \A w \in Workflows : \A i \in 1..Len(calls[w]) :
        IsExecution(calls[w][i])
        => /\ (Resolving(w).decision = "edit" /\ Resolving(w).edited_content # "")
              => calls[w][i].body = Resolving(w).edited_content
           /\ (Resolving(w).decision = "edit" /\ Resolving(w).edited_content = "")
              => calls[w][i].body = result[w].body
           /\ Resolving(w).decision = "approve"
              => calls[w][i].body = result[w].body

\* C9 witness: executions after an edit with content, after an edit without
\* content and after an approve.
C9_Witness ==
    \E a \in Workflows : \E b \in Workflows \ {a} :
        /\ Count(calls[a], IsExecution) = 1
        /\ Resolving(a).decision = "edit" /\ Resolving(a).edited_content = "New body"
        /\ Count(calls[b], IsExecution) = 1
        /\ Resolving(b).decision \in {"approve", "edit"}
        /\ Resolving(b).edited_content = ""

RespondedToNotify(w) ==
    /\ Len(waits[w]) >= 1
    /\ waits[w][1].notification_type
    /\ waits[w][1].state = "resumed"
    /\ waits[w][1].decision = "respond"

\* C10: after respond on a notify suspension the draft-only stage is invoked,
\* then a second, draft-approval suspension is registered under the same
\* workflow_id, and no workflow_complete is broadcast and no execution runs
\* until that second suspension is resolved by a decision or a timeout.
C10_RespondResuspends ==
    \A w \in Workflows : RespondedToNotify(w)
        => /\ pc[w] # "draft" => Count(calls[w], IsDraftOnly) = 1
           /\ pc[w] \notin {"draft", "d_reg", "d_regev", "done"}
              => Len(waits[w]) = 2
           /\ Len(waits[w]) = 2
              => /\ ~waits[w][2].notification_type
                 /\ approval_events[w] = 2
           /\ (HasSent(w, "workflow_complete") \/ Count(calls[w], IsExecution) > 0)
              => (Len(waits[w]) = 2 /\ waits[w][2].state = "resumed")
           /\ pc[w] = "done"
              => \/ Len(waits[w]) = 2 /\ waits[w][2].state \in {"resumed", "timeout"}
                 \/ HasSent(w, "workflow_error")

\* C10 witness: a workflow completed after respond, draft and a resolved
\* second suspension.
C10_Witness ==
    \E w \in Workflows :
        /\ RespondedToNotify(w)
        /\ Len(waits[w]) = 2 /\ waits[w][2].state = "resumed"
        /\ HasSent(w, "workflow_complete")
        /\ Count(calls[w], IsExecution) = 1

\* --------------------------------------------------------------- C11, C12
OpenWaits(w) == {g \in Suspensions(w) : waits[w][g].state = "open"}

\* C11: the registry holds at most one PendingApproval per workflow_id and a
\* workflow has at most one outstanding suspension; the registration of the
\* second suspension (after respond) replaces the entry stored under the id:
\* from then on the entry, when present, is the draft-approval one.
C11_OnePendingPerWorkflow ==
    /\ DOMAIN pending_approvals \subseteq Workflows
    /\ \A w \in Workflows :
          /\ Cardinality(OpenWaits(w)) <= 1
          /\ (pc[w] \in {"d_regev", "d_bc", "d_wait"} /\ w \in DOMAIN pending_approvals)
                => pending_approvals[w] = ApprovalData(w, FALSE)
          /\ (pc[w] \in {"n_regev", "n_bc", "n_wait"} /\ w \in DOMAIN pending_approvals)
                => pending_approvals[w] = ApprovalData(w, TRUE)

\* C11 witness: a workflow re-suspended after respond; its first suspension is
\* resolved, the second is outstanding and the entry is the draft-approval one.
C11_Witness ==
    \E w \in Workflows :
        /\ RespondedToNotify(w)
        /\ pc[w] = "d_wait"
        /\ OpenWaits(w) = {2}
        /\ w \in DOMAIN pending_approvals
        /\ pending_approvals[w] = ApprovalData(w, FALSE)

\* the suspensions of w are all resolved by a decision and w has finished
AlreadyResolved(w) ==
    /\ pc[w] = "done"
    /\ Len(waits[w]) >= 1
    /\ \A g \in Suspensions(w) : waits[w][g].state = "resumed"

\* C12: a decision received for a workflow whose suspension was already
\* resolved changes nothing: not the stored Decision, the signal, the
\* registry of PendingApprovals or the workflow's state.
C12_SecondDecisionNoOp ==
    [][\A w \in Workflows :
          (AlreadyResolved(w) /\ received' # received /\ hmsg'.workflow_id = w)
          => /\ approval_decisions' = approval_decisions
             /\ event_set' = event_set
             /\ scheduled' = scheduled
             /\ pending_approvals' = pending_approvals
             /\ WorkflowState(w)' = WorkflowState(w)]_vars

\* --------------------------------------------------------------- C13, C14
\* C13: a broadcast_message call never raises to its caller; when it has
\* returned, every connection that was in the list with a live peer from the
\* call to the return has been sent the notification, and every connection
\* whose send failed is out of the list.
C13_BroadcastReachesEveryConnection ==
    \A b \in Broadcasters :
        /\ broadcasts[b].pc # "raised"
        /\ broadcasts[b].pc = "returned"
              => (broadcasts[b].missed = {} /\ broadcasts[b].stale = {})

\* C14: an observer whose peer is there stays connected, and once its join
\* snapshot is through it has been sent every PendingApproval that was in the
\* registry when it joined.
C14_JoinSnapshotComplete ==
    \A c \in Conns :
        endpoint[c].alive
        => /\ endpoint[c].pc # "exited"
           /\ endpoint[c].pc = "listening" => endpoint[c].complete

\* -------------------------------------------------------------------- C15
Raises(w) ==
    /\ Len(calls'[w]) = Len(calls[w]) + 1
    /\ calls'[w][Len(calls'[w])].raised

\* C15: a call of a stage or of the audit collaborator that raised is the last
\* call its workflow makes; the workflow has returned and the last thing it
\* broadcast is the one workflow_error for its id.  The step in which the call
\* raises and is handled changes nothing of any other workflow.
C15_StageErrorContained ==
    /\ [](\A w \in Workflows : \A i \in 1..Len(calls[w]) :
             calls[w][i].raised
             => /\ i = Len(calls[w])
                /\ pc[w] = "done"
                /\ Len(sent[w]) >= 1
                /\ sent[w][Len(sent[w])].type = "workflow_error"
                /\ Len(SelectSeq(sent[w], LAMBDA n : n.type = "workflow_error")) = 1)
    /\ [][\A w \in Workflows : Raises(w)
             => \A b \in Workflows \ {w} : WorkflowState(b)' = WorkflowState(b)]_vars

\* C15 witness: one workflow ended by a raising stage call while the other is
\* suspended with its PendingApproval and signal in place.
C15_Witness ==
    \E a \in Workflows : \E b \in Workflows \ {a} :
        /\ Len(calls[a]) >= 1 /\ calls[a][Len(calls[a])].raised
        /\ HasSent(a, "workflow_error")
        /\ pc[b] \in {"n_wait", "d_wait"}
        /\ b \in DOMAIN pending_approvals
        /\ b \in DOMAIN approval_events

\* -------------------------------------------------------------------- C16
\* the step a workflow takes next when nothing raises and no wait times out
Proceeds(w) ==
    \/ Submit(w)
    \/ \E r \in Stage1Results : Stage1Return(w, r)
    \/ TriageBroadcast(w)
    \/ RegisterPending(w)
    \/ RegisterEvent(w)
    \/ ApprovalBroadcast(w)
    \/ Resume(w)
    \/ Ignore(w)
    \/ DraftReturn(w)
    \/ Deny(w)
    \/ Execute(w)
    \/ UpdateMemory(w)
    \/ AutoBroadcast(w)

\* the event workflow w waits on is set
Signalled(w) == w \in DOMAIN approval_events /\ event_set[w][approval_events[w]]

\* C16: while a workflow a is inside its stage-1 invocation, any other
\* workflow b that has not finished can take its next step, whatever it is;
\* the only thing b ever waits for is its own decision.
C16_NoHeadOfLineBlocking ==
    \A a \in Workflows : \A b \in Workflows \ {a} :
        (/\ pc[a] = "stage1"
         /\ pc[b] # "done"
         /\ pc[b] \in {"n_wait", "d_wait"} => Signalled(b))
        => ENABLED Proceeds(b)

\* C16 witness: a is still inside stage 1 and b has gone through stage 1, a
\* suspension, its decision, execution and completion.
C16_Witness ==
    \E a \in Workflows : \E b \in Workflows \ {a} :
        /\ pc[a] = "stage1"
        /\ pc[b] = "done"
        /\ Len(waits[b]) >= 1 /\ waits[b][1].state = "resumed"
        /\ Count(calls[b], IsExecution) = 1
        /\ HasSent(b, "workflow_complete")

\* --------------------------------------------------------------- C17..C20
\* C17: the callback is invoked at most once for an item id.
C17_CallbackAtMostOnce == \A id \in Ids : item[id].invoked <= 1

\* C17 witness: a cycle after the one that handed the id to the callback has
\* listed the id again (it is still unread: mark_as_read failed or its
\* callback raised) and is over without a second invocation.
C17_Witness ==
    \E id \in Ids :
        /\ item[id].invoked = 1
        /\ id \in unread
        /\ cycle.n >= 2
        /\ cycle.fetched = "items"
        /\ id \notin cycle.listed
        /\ ppc = "check"

\* a fetch cycle starts and its listing raises
CycleRaises == ppc = "list" /\ cycle'.n = cycle.n + 1 /\ cycle'.fetched = "raised"

\* a fetch cycle whose listing did not raise ends
CycleCompletes == ppc = "check" /\ ppc' = "fetch" /\ cycle.fetched \in {"empty", "items"}

\* a callback returns without raising
CallbackSucceeds == \E id \in Ids : item[id].outcome # "ok" /\ item'[id].outcome = "ok"

\* C18: consecutive_errors is incremented by a fetch cycle that raises, and is
\* zero after a cycle that completes and after a callback that returns.
C18_CounterTracksCycles ==
    [][/\ CycleRaises => consecutive_errors' = consecutive_errors + 1
       /\ CycleCompletes => consecutive_errors' = 0
       /\ CallbackSucceeds => consecutive_errors' = 0]_vars

\* C19: no fetch cycle starts with the counter at or above max_errors or with
\* a cooldown owed for the counter having reached max_errors; the cooldown is
\* taken only with the counter at or above max_errors and resets it.
C19_CooldownAtThreshold ==
    /\ [](ppc = "fetch" => (~owed /\ consecutive_errors < max_errors))
    /\ [][cooldowns' # cooldowns
            => (consecutive_errors >= max_errors /\ consecutive_errors' = 0)]_vars

\* the ids of the emails still to hand to the callback
Waiting == {emails[i] : i \in 1..Len(emails)}

\* C20: every id that was new in the listing of a cycle and whose fetch did
\* not fail is in processed_ids and has been handed to the callback by the end
\* of the cycle, whatever happened to the other items: while the callbacks
\* run it is either waiting for its turn or has had it.
C20_ItemErrorSkipsOnlyThatItem ==
    \A id \in cycle.listed \ cycle.failed :
        /\ ppc = "callbacks"
              => (id \in processed_ids /\ (id \in Waiting \/ item[id].invoked = 1))
        /\ ppc \in {"check", "fetch", "stopped"}
              => (id \in processed_ids /\ item[id].invoked = 1)

\* C20 witness: in one cycle the fetch of one item failed, a later item's
\* callback raised and a still later item's callback returned.
C20_Witness ==
    \E i \in cycle.listed, j \in cycle.listed, k \in cycle.listed :
        /\ i < j /\ j < k
        /\ ppc = "check"
        /\ i \in cycle.failed
        /\ item[j].outcome = "raised"
        /\ item[k].outcome = "ok"

\* -------------------------------------------------------------------- C21
\* C21: mark_as_read has been called for an id only if the callback for that
\* id has returned without raising; an id whose callback raised, or has not
\* run, is still unread; and an id whose mark_as_read failed has been handed
\* to the callback once and the loop goes on (it stops only after stop()).
C21_MarkReadAfterCallback ==
    /\ \A id \in Ids :
          /\ item[id].mark # "none" => (item[id].outcome = "ok" /\ item[id].invoked = 1)
          /\ (id <= arrived /\ item[id].outcome # "ok") => id \in unread
          /\ (id <= arrived /\ id \notin unread) => item[id].mark = "ok"
    /\ ppc = "stopped" => ~running

\* C21 witness: mark_as_read failed for one id, a later email of the batch was
\* still handed to the callback, and a later cycle that listed the unread id
\* again is over without a second invocation.
C21_Witness ==
    \E i \in Ids, k \in Ids :
        /\ i < k
        /\ item[i].mark = "failed" /\ item[i].invoked = 1 /\ i \in unread
        /\ item[k].outcome = "ok"
        /\ cycle.n >= 2 /\ cycle.fetched = "items" /\ i \notin cycle.listed
        /\ ppc = "check"

\* -------------------------------------------------------------------- C22
\* C22: once stop() has been called on a running poller the loop eventually
\* ends; when it has ended every item of the last cycle whose fetch succeeded
\* has been handed to the callback, nothing is left in the batch; and the loop
\* test never lets a cycle begin after stop().
C22_StopEndsLoopAfterCycle ==
    /\ (~running /\ ppc # "idle") ~> (ppc = "stopped")
    /\ [](ppc = "stopped" =>
            /\ messages = << >> /\ emails = << >>
            /\ \A id \in cycle.listed \ cycle.failed : item[id].invoked = 1)
    /\ [][(~running /\ ppc = "fetch") => (ppc' = "stopped" /\ cycle' = cycle)]_vars
    /\ [][cycle'.n # cycle.n => ppc = "list"]_vars

\* C22 witness: stop() was called while the batch was being fetched or handed
\* over, the loop has ended, and every fetched item of that cycle was handed
\* to the callback.
C22_Witness ==
    /\ ppc = "stopped"
    /\ cycle.stopped_at \in {"list", "items", "callbacks"}
    /\ Cardinality(cycle.listed \ cycle.failed) >= 2
    /\ \A id \in cycle.listed \ cycle.failed : item[id].invoked = 1

\* -------------------------------------------------------------------- C23
\* C23 (as stated): once the poller has stopped, through stop() or through the
\* interrupt, every workflow that was submitted and is not over can still
\* take its next step (resume on a decision, time out, run its next stage).
C23_StopKeepsWorkflowsRunning ==
    \A w \in Workflows :
        (ppc = "stopped" /\ pc[w] \notin {"created", "done"})
            => ENABLED (loop_running /\ Coordinator(w))

\* -------------------------------------------------------------------- C24
IsStage(c) == c.stage \in {"stage1", "react_agent", "execute_action", "update_memory"}

IsRaisedStage(c) == IsStage(c) /\ c.raised

IsAuditWritten(c) == IsAuditWrite(c) /\ ~c.raised

\* C24 (as stated): a workflow that is over after one of its pipeline stages
\* raised has had an audit record written for it.
C24_StageErrorAudited ==
    \A w \in Workflows :
        (pc[w] = "done" /\ Count(calls[w], IsRaisedStage) > 0)
            => Count(calls[w], IsAuditWritten) > 0

\* -------------------------------------------------------------------- C25
\* C25: whenever the handler removes the PendingApproval of a workflow the
\* decision store holds a Decision for it; an event is set, or its set is
\* scheduled, only for a workflow with a stored Decision; and a coroutine woken
\* by its event acts on the stored Decision, never on a default.
C25_RemovedOnlyAfterStored ==
    /\ [][\A w \in Workflows :
            (w \in DOMAIN pending_approvals /\ w \notin DOMAIN pending_approvals')
                => w \in DOMAIN approval_decisions']_vars
    /\ [][\A w \in Workflows :
            Resumes(w) => /\ w \in DOMAIN approval_decisions
                          /\ decision'[w] = approval_decisions[w].decision]_vars
    /\ [](\A w \in Workflows :
            (\/ \E g \in Gens : event_set[w][g]
             \/ \E g \in Gens : <<w, g>> \in scheduled) => w \in DOMAIN approval_decisions)

\* C25 witness: a coroutine has resumed on "approve" from its draft approval,
\* the handler has removed the PendingApproval and the Decision is stored.
C25_Witness ==
    \E w \in Workflows :
        /\ pc[w] = "exec" /\ decision[w] = "approve"
        /\ w \notin DOMAIN pending_approvals
        /\ w \in DOMAIN approval_decisions /\ approval_decisions[w].decision = "approve"
        /\ hpc = "idle"

\* -------------------------------------------------------------------- C26
\* C26 (as stated): the registry holds a SuspensionSignal for a workflow only
\* while the suspension it was created for is outstanding: once the coroutine
\* has resumed from it or timed out on it the signal is gone.
C26_SignalDiscardedOnceConsumed ==
    \A w \in Workflows :
        w \in DOMAIN approval_events => waits[w][approval_events[w]].state = "open"

\* -------------------------------------------------------------------- C27
\* C27 (as stated): after respond on the notify suspension, the draft-approval
\* suspension is resolved only by a decision received after its
\* approval_required was broadcast; a decision received earlier was issued
\* against the first suspension and is discarded.
C27_LingeringDecisionDiscarded ==
    [][\A w \in Workflows :
          (Resumes(w) /\ pc[w] = "d_wait" /\ RespondedToNotify(w))
              => w \in DOMAIN heard]_vars

\* -------------------------------------------------------------------- C28
\* the decision handler is in the middle of a message about w, or a
\* _set_event it scheduled for w has not run yet
HandlerBusyWith(w) ==
    \/ hpc # "idle" /\ hmsg.workflow_id = w
    \/ \E g \in Gens : <<w, g>> \in scheduled

\* C28 (as stated): while a workflow waits on a signal that has not fired, and
\* no decision for it is being handled, the registry contains its
\* PendingApproval.
C28_PendingWhileWaiting ==
    \A w \in Workflows :
        (pc[w] \in {"n_wait", "d_wait"} /\ ~Signalled(w) /\ ~HandlerBusyWith(w))
            => w \in DOMAIN pending_approvals

\* -------------------------------------------------------------------- C29
\* the draft-approval suspensions of w that a decision resolved
ApprovedDrafts(w) ==
    {g \in Suspensions(w) : /\ ~waits[w][g].notification_type
                            /\ waits[w][g].state = "resumed"
                            /\ waits[w][g].decision # "deny"}

\* C29: the execution stage is invoked only from the position that follows a
\* resumed draft-approval wait: the workflow then has a draft-approval
\* suspension resolved by a stored decision for its own id whose verdict is not
\* deny, has broadcast approval_required for it, has not timed out and is not
\* suspended; and the wait is left only with the event set, which only a
\* decision carrying this workflow_id brings about.
C29_ExecutionOnlyAfterDraftApproval ==
    /\ [](\A w \in Workflows :
            (pc[w] = "exec" \/ Count(calls[w], IsExecution) > 0)
                => /\ ApprovedDrafts(w) # {}
                   /\ OpenWaits(w) = {}
                   /\ ~TimedOut(w)
                   /\ w \in DOMAIN approval_decisions
                   /\ Count(sent[w], LAMBDA n : n.type = "approval_required")
                         >= Len(waits[w]))
    /\ [][\A w \in Workflows :
            Count(calls'[w], IsExecution) > Count(calls[w], IsExecution)
                => pc[w] = "exec"]_vars
    /\ [][\A w \in Workflows :
            (pc[w] # "exec" /\ pc'[w] = "exec")
                => (pc[w] = "d_wait" /\ Signalled(w))]_vars
    /\ [][\A w \in Workflows, g \in Gens :
            (~event_set[w][g] /\ event_set'[w][g]) => IsHandlerStepFor(w)]_vars

\* C29 witness: the execution stage has run for a workflow whose draft approval
\* was resolved by "approve", while the other workflow timed out on its draft
\* approval and nothing was executed for it.
C29_Witness ==
    \E w \in Workflows, o \in Workflows :
        /\ w # o
        /\ Count(calls[w], IsExecution) = 1
        /\ ~waits[w][Len(waits[w])].notification_type
        /\ waits[w][Len(waits[w])].decision = "approve"
        /\ pc[o] = "done" /\ TimedOut(o)
        /\ waits[o] # << >> /\ ~waits[o][Len(waits[o])].notification_type
        /\ Count(calls[o], IsExecution) = 0

\* -------------------------------------------------------------------- C30
NotifyWaits(w) == {g \in Suspensions(w) : waits[w][g].notification_type}

DraftWaits(w) == {g \in Suspensions(w) : ~waits[w][g].notification_type}

\* C30: every submitted workflow eventually is over with a terminal
\* notification broadcast; it suspends at most twice: at most one notify
\* suspension and at most one draft-approval suspension, the notify one first,
\* the draft-approval one after it only when the notify one was resolved by
\* "respond".
C30_WorkflowTerminates ==
    /\ \A w \in Workflows :
          (pc[w] # "created") ~> (pc[w] = "done" /\ Len(TerminalSent(w)) >= 1)
    /\ [](\A w \in Workflows :
            /\ Len(waits[w]) <= 2
            /\ Cardinality(NotifyWaits(w)) <= 1
            /\ Cardinality(DraftWaits(w)) <= 1
            /\ NotifyWaits(w) \subseteq {1}
            /\ Len(waits[w]) = 2 => RespondedToNotify(w))

\* C30 witness: a workflow that suspended twice (notify resolved by respond,
\* then draft approval) is over, and so is one whose wait timed out.
C30_Witness ==
    \E w \in Workflows, o \in Workflows :
        /\ w # o
        /\ pc[w] = "done" /\ Len(waits[w]) = 2 /\ Len(TerminalSent(w)) >= 1
        /\ pc[o] = "done" /\ TimedOut(o)

====
